---- MODULE Spec2Model ----
(***************************************************************************)
(* ConceptBridge backend_v2: the analogy request pipeline                  *)
(* (routers/analogies.py, services/analogy_service.py, schemas.py,         *)
(* models.py) as a state machine over the relational tables.               *)
(*                                                                         *)
(* Python values:                                                          *)
(*   Optional[T]   None is << >>, a present value x is << x >>             *)
(*   str           a sequence of text fragments; "" is << >>               *)
(*   float score   an integer number of hundredths                         *)
(***************************************************************************)
EXTENDS Integers, Sequences, FiniteSets, TLC

VARIABLES
    catalog,    \* professions, topics, subtopics tables (models.py 7-53)
    sessions,   \* learning_sessions table; a row's id is its index
    analogies,  \* generated_analogies table; a row's id is its index
    pc,         \* per worker: where its generate request stands
    req,        \* per worker: the AnalogyRequest being handled
    session,    \* per worker: the handler's local `session` (its id)
    out,        \* the response to the latest request, once it is answered
    svcIn,      \* service-level call: the arguments of the last call
    svcOut      \* service-level call: what the last call returned

vars == <<catalog, sessions, analogies, pc, req, session, out, svcIn, svcOut>>

-----------------------------------------------------------------------------
(* Bounds of the model *)

\* request ids range over 0..MaxId; the catalog ids are a subset
MaxId == 2
\* rows the learning_sessions table may reach
MaxSessions == 2
\* rows the generated_analogies table may reach
MaxAnalogies == 2

-----------------------------------------------------------------------------
(* Python values *)

None == << >>
Some(x) == << x >>
IsNone(o) == Len(o) = 0
Val(o) == o[1]

\* truth value of an Optional[int]: None and 0 are falsy
TruthyInt(o) == ~IsNone(o) /\ Val(o) # 0
\* truth value of an Optional[str]: None and "" are falsy
TruthyStr(o) == ~IsNone(o) /\ Len(Val(o)) > 0
\* Python `a or b` on Optional[str]
OrStr(a, b) == IF TruthyStr(a) THEN a ELSE b

\* str(x) inside an f-string: None prints as the text None
Fmt(o) == IF IsNone(o) THEN << "None" >> ELSE Val(o)

HTTP_200 == 200
HTTP_404 == 404
HTTP_500 == 500
\* the status FastAPI answers when the body fails the schema's validation
HTTP_422 == 422

-----------------------------------------------------------------------------
(* Request schemas: the fields pydantic declares.  Reading an attribute     *)
(* that is not a declared field raises AttributeError.                      *)

AnalogyRequestFields ==
    {"user_identifier", "profession_id", "topic_id", "subtopic_id",
     "concept_name", "concept_description", "difficulty_preference",
     "creative_level"}

ConceptExplanationRequestFields ==
    {"profession", "concept", "context", "creativity_level"}

QuickAnalogyResponseFields ==
    {"concept", "profession_context", "analogy_title", "explanation",
     "practical_examples", "key_connections", "next_steps", "generation_time"}

\* the attributes generate_personalized_analogy reads from its request
GenerateReads ==
    {"profession_id", "topic_id", "subtopic_id", "concept_name",
     "concept_description", "user_identifier", "max_tokens", "response_format",
     "difficulty_preference", "creative_level"}

\* the attributes quick_concept_explanation reads from its request
QuickReads ==
    {"profession", "concept", "max_tokens", "response_length", "context",
     "creativity_level"}

-----------------------------------------------------------------------------
(* Text helpers.  A str is a sequence of units: a unit is one character of  *)
(* an input text, or one literal fragment or interpolated word of a         *)
(* template.                                                                *)

T(w) == << w >>

RECURSIVE Join(_, _)
\* sep.join(list)
Join(sep, list) ==
    IF Len(list) = 0 THEN << >>
    ELSE IF Len(list) = 1 THEN list[1]
    ELSE list[1] \o sep \o Join(sep, Tail(list))

\* list[:n]
Take(list, n) == SubSeq(list, 1, IF Len(list) < n THEN Len(list) ELSE n)

\* dict.get(key, default); a dict is a function on its keys, {} is << >>
DictGet(d, k, default) == IF k \in DOMAIN d THEN d[k] ELSE default

Whitespace == {" ", "\n"}

RECURSIVE LStrip(_)
LStrip(s) == IF Len(s) > 0 /\ Head(s) \in Whitespace THEN LStrip(Tail(s)) ELSE s

RECURSIVE RStrip(_)
RStrip(s) ==
    IF Len(s) > 0 /\ s[Len(s)] \in Whitespace
    THEN RStrip(SubSeq(s, 1, Len(s) - 1)) ELSE s

\* str.strip()
Strip(s) == RStrip(LStrip(s))

\* the letter-case forms of the profession words of the model
CaseForms ==
    { [lower |-> "cooking",  title |-> "Cooking",  upper |-> "COOKING"],
      [lower |-> "gaming",   title |-> "Gaming",   upper |-> "GAMING"],
      [lower |-> "sports",   title |-> "Sports",   upper |-> "SPORTS"],
      [lower |-> "music",    title |-> "Music",    upper |-> "MUSIC"],
      [lower |-> "business", title |-> "Business", upper |-> "BUSINESS"],
      [lower |-> "plumber",  title |-> "Plumber",  upper |-> "PLUMBER"] }

FormsOf(w) == { f \in CaseForms : w \in {f.lower, f.title, f.upper} }

LowerUnit(w) == IF FormsOf(w) = {} THEN w ELSE (CHOOSE f \in FormsOf(w) : TRUE).lower
TitleUnit(w) == IF FormsOf(w) = {} THEN w ELSE (CHOOSE f \in FormsOf(w) : TRUE).title

\* str.lower()
Lower(s) == [i \in DOMAIN s |-> LowerUnit(s[i])]
\* str.title()
Title(s) == [i \in DOMAIN s |-> TitleUnit(s[i])]

-----------------------------------------------------------------------------
(* AnalogyGenerationService (services/analogy_service.py)                   *)

\* self.profession_contexts: key -> {keywords, metaphors, examples}
profession_contexts ==
    (T("cooking") :>
        [keywords |-> << T("recipe"), T("ingredients"), T("cooking process"),
                         T("kitchen tools"), T("preparation") >>,
         metaphors |-> << T("mixing ingredients"), T("following recipes") >>,
         examples |-> << T("preparing a multi-course meal"),
                         T("organizing a kitchen"), T("scaling recipes") >>])
    @@ (T("gaming") :>
        [keywords |-> << T("levels"), T("progression"), T("stats"),
                         T("inventory"), T("quests") >>,
         metaphors |-> << T("character builds"), T("quest completion") >>,
         examples |-> << T("RPG character development"),
                         T("strategy game tactics"),
                         T("puzzle-solving mechanics") >>])
    @@ (T("sports") :>
        [keywords |-> << T("team strategy"), T("training"), T("performance"),
                         T("competition"), T("tactics") >>,
         metaphors |-> << T("team formations"), T("training regimens") >>,
         examples |-> << T("building a winning team"),
                         T("developing game strategy"),
                         T("analyzing player statistics") >>])
    @@ (T("music") :>
        [keywords |-> << T("harmony"), T("rhythm"), T("composition"),
                         T("instruments"), T("scales") >>,
         metaphors |-> << T("musical composition"), T("orchestra coordination") >>,
         examples |-> << T("composing a symphony"), T("arranging instruments"),
                         T("creating rhythm patterns") >>])
    @@ (T("business") :>
        [keywords |-> << T("organization"), T("processes"), T("management"),
                         T("efficiency"), T("workflow") >>,
         metaphors |-> << T("company structure"), T("project management") >>,
         examples |-> << T("organizational hierarchy"), T("project planning"),
                         T("resource optimization") >>])

\* the outcome of a call that raised
Raised == [raised |-> TRUE]

\* Python / JSON values, tagged by type
PyStr(s) == [t |-> "str", s |-> s]
PyNone == [t |-> "none"]
PyNum == [t |-> "num"]
PyList(items) == [t |-> "list", items |-> items]
PyDict(d) == [t |-> "dict", d |-> d]
IsStr(v) == v.t = "str"
IsStrList(v) == v.t = "list" /\ \A i \in DOMAIN v.items : IsStr(v.items[i])

\* AnalogyExample(title, description, code_snippet, visual_metaphor)
AnalogyExample(title, description, code_snippet, visual_metaphor) ==
    [title |-> title, description |-> description,
     code_snippet |-> code_snippet, visual_metaphor |-> visual_metaphor]

\* FallbackDefaultKeywords as an empty list
FallbackDefaultKeywordsEmpty == << >>

\* the list the fallback indexes with [0] when the profession has no table entry
FallbackDefaultKeywords == << T("items") >>

\* _generate_fallback_analogy: the template analogy; list[0] on an empty
\* list raises IndexError
_generate_fallback_analogy(profession, concept_name, concept_description) ==
    LET ctx == DictGet(profession_contexts, Lower(profession), << >>)
        kw3 == Take(DictGet(ctx, "keywords", << T("systems"), T("processes") >>), 3)
        exs == DictGet(ctx, "examples", << T("a structured process") >>)
        kws == DictGet(ctx, "keywords", FallbackDefaultKeywords)
    IN  IF Len(exs) = 0 \/ Len(kws) = 0 THEN Raised
        ELSE
        [raised |-> FALSE,
         source |-> "fallback",
         title |-> PyStr(T("Understanding ") \o concept_name \o T(" Through ")
                         \o Title(profession)),
         explanation |-> PyStr(Strip(
              T("\n") \o T("Let me explain ") \o concept_name
              \o T(" using concepts from ") \o profession
              \o T(" that you're familiar with.") \o T("\n")
              \o Fmt(concept_description) \o T("\n")
              \o T("In ") \o profession \o T(", you probably work with ")
              \o Join(T(", "), kw3) \o T(". ") \o T("\n")
              \o concept_name \o T(" works in a similar way") \o T("\n")
              \o T("Think of it like ") \o exs[1] \o T(" where you need to:")
              \o T("\n") \o T("1. Understand the components involved")
              \o T("\n") \o T("2. Follow a systematic approach")
              \o T("\n") \o T("3. Achieve a specific outcome efficiently")
              \o T("\n") \o T("This concept is fundamental in computer science, ")
              \o T("much like how you approach challenges in ") \o profession
              \o T(".") \o T("\n") \o T(" "))),
         examples |-> <<
             AnalogyExample(
                 T("Basic ") \o concept_name \o T(" Example"),
                 T("A simple example relating ") \o concept_name \o T(" to ")
                     \o profession \o T(" practices"),
                 None,
                 Some(T("Like organizing ") \o kws[1])) >>]

-----------------------------------------------------------------------------
(* The external completion call.  Its outcome is an input of the model:     *)
(* the call raises, or it returns a reply whose message content is          *)
(*   [form |-> "json", obj |-> d, text |-> s]                               *)
(*                                  text s that json.loads parses to dict d *)
(*   [form |-> "raw", text |-> s]   any other text s (a '{' prefix means    *)
(*                                  malformed JSON)                         *)
(*   [form |-> "none"]              a null content                          *)

ExtRaise == [kind |-> "raise"]
ExtReply(c) == [kind |-> "reply", content |-> c]
JsonContent(d, s) == [form |-> "json", obj |-> d, text |-> s]
RawContent(s) == [form |-> "raw", text |-> s]
NoContent == [form |-> "none"]

\* content.strip().startswith('{')
StartsWithBrace(s) == Len(Strip(s)) > 0 /\ Strip(s)[1] = "{"

TitleKeywords == {"like", "analogy", "imagine", "think of"}

\* content.split('\n'): the lines of a text
RECURSIVE SplitLines(_)
SplitLines(s) ==
    IF \A i \in DOMAIN s : s[i] # "\n" THEN << s >>
    ELSE LET k == CHOOSE i \in DOMAIN s :
                     s[i] = "\n" /\ \A j \in 1..(i - 1) : s[j] # "\n"
         IN  << SubSeq(s, 1, k - 1) >> \o SplitLines(SubSeq(s, k + 1, Len(s)))

RECURSIVE StripQuotes(_)
\* str.strip('"')
StripQuotes(s) ==
    IF Len(s) > 0 /\ Head(s) = "\"" THEN StripQuotes(Tail(s))
    ELSE IF Len(s) > 0 /\ s[Len(s)] = "\"" THEN StripQuotes(SubSeq(s, 1, Len(s) - 1))
    ELSE s

\* a keyword occurs in line.lower(); a keyword is one unit of the text
HasTitleKeyword(line) == \E i \in DOMAIN line : LowerUnit(line[i]) \in TitleKeywords

TitleLineLimit == 100
TruncateAt == 500

\* _extract_analogy_parts returning the stripped text as the explanation
_extract_analogy_parts_stripped(content) ==
    ("title" :> PyStr(T("Understanding Through Analogy")))
    @@ ("explanation" :> PyStr(Strip(content)))
    @@ ("examples" :> PyList(<< >>))

\* _extract_analogy_parts: scan the first three lines for a title
_extract_analogy_parts(content) ==
    LET lines == Take(SplitLines(content), 3)
        hits == { i \in DOMAIN lines :
                    /\ Len(Strip(lines[i])) > 0
                    /\ Len(Strip(lines[i])) < TitleLineLimit
                    /\ HasTitleKeyword(lines[i]) }
        first == CHOOSE i \in hits : \A j \in hits : i <= j
    IN  ("title" :> (IF hits = {} THEN PyStr(T("Understanding Through Analogy"))
                     ELSE PyStr(Strip(StripQuotes(Strip(lines[first]))))))
        @@ ("explanation" :> PyStr(content))
        @@ ("examples" :> PyList(<< >>))

\* AnalogyExample(...) built from one entry of the reply's example list;
\* pydantic rejects a title or description that is not a str
ExampleFromDict(ex) ==
    LET title == DictGet(ex.d, "title", PyStr(T("Example")))
        description == DictGet(ex.d, "description", PyStr(<< >>))
    IN  IF IsStr(title) /\ IsStr(description)
        THEN [raised |-> FALSE,
              value |-> AnalogyExample(title.s, description.s, None, None)]
        ELSE Raised

\* ParseTruncated returning the whole text
ParseTruncatedWhole(text) ==
    [raised |-> FALSE, path |-> "truncated",
     title |-> PyStr(T("Understanding Through Analogy")),
     explanation |-> PyStr(text),
     examples |-> << >>]

\* _parse_analogy_response, the value the except branch returns:
\* content[:500] + "..." if len(content) > 500 else content
ParseTruncated(text) ==
    [raised |-> FALSE, path |-> "truncated",
     title |-> PyStr(T("Understanding Through Analogy")),
     explanation |-> PyStr(IF Len(text) > TruncateAt
                           THEN SubSeq(text, 1, TruncateAt) \o << ".", ".", "." >>
                           ELSE text),
     examples |-> << >>]

\* the body of _parse_analogy_response's try block, for the data obtained
\* on the given path (json.loads or _extract_analogy_parts)
ParseData(data, text, path) ==
    LET exv == DictGet(data, "examples", PyList(<< >>))
        dicts == IF exv.t = "list"
                 THEN SelectSeq(exv.items, LAMBDA e : e.t = "dict") ELSE << >>
        built == [i \in DOMAIN dicts |-> ExampleFromDict(dicts[i])]
    IN  IF exv.t \in {"none", "num"} \/ \E i \in DOMAIN built : built[i].raised
        THEN ParseTruncated(text)
        ELSE [raised |-> FALSE, path |-> path,
              title |-> DictGet(data, "title", PyStr(T("Concept Explanation"))),
              explanation |-> DictGet(data, "explanation", PyStr(<< >>)),
              examples |-> [i \in DOMAIN built |-> built[i].value]]

\* _parse_analogy_response
_parse_analogy_response(content) ==
    IF content.form = "none" THEN Raised
    ELSE IF content.form = "json" THEN ParseData(content.obj, content.text, "json")
    ELSE IF StartsWithBrace(content.text) THEN ParseTruncated(content.text)
    ELSE ParseData(_extract_analogy_parts(content.text), content.text, "heuristic")

\* the except branch re-raising instead of falling back
generate_analogy_reraise(profession, concept_name, concept_description) == Raised

\* the except branch of generate_analogy
generate_analogy_except(profession, concept_name, concept_description) ==
    _generate_fallback_analogy(profession, concept_name, concept_description)

\* generate_analogy: the result for one outcome of the external call
generate_analogy(profession, concept_name, concept_description, ext) ==
    LET parsed == _parse_analogy_response(ext.content)
    IN  IF ext.kind = "raise" \/ parsed.raised
        THEN generate_analogy_except(profession, concept_name, concept_description)
        ELSE [raised |-> FALSE, source |-> "ai", title |-> parsed.title,
              explanation |-> parsed.explanation, examples |-> parsed.examples]

\* token amounts are counted in twentieths of a token, so that
\* max_tokens * 0.75 and words * 1.3 are whole numbers
TokenScale == 20
\* line 76: the minimum viable response
MinViableTokens == 300

\* safe_max_tokens taking the larger of the two candidates
safe_max_tokens_larger(max_tokens, words) ==
    LET a == TokenScale * (max_tokens - ((13 * words) \div 10))
        b == 15 * max_tokens
        m == IF a > b THEN a ELSE b
    IN  IF m > TokenScale * MinViableTokens THEN m ELSE TokenScale * MinViableTokens

\* safe_max_tokens without the floor of line 76
safe_max_tokens_nofloor(max_tokens, words) ==
    LET a == TokenScale * (max_tokens - ((13 * words) \div 10))
        b == 15 * max_tokens
    IN  IF a < b THEN a ELSE b

\* lines 74-76: the safe output budget for a prompt of `words` words, in
\* twentieths.  int(words * 1.3) is the whole part of 13 * words / 10.
safe_max_tokens(max_tokens, words) ==
    LET input_tokens == (13 * words) \div 10
        a == TokenScale * (max_tokens - input_tokens)
        b == 15 * max_tokens
        m == IF a < b THEN a ELSE b
    IN  IF m > TokenScale * MinViableTokens THEN m ELSE TokenScale * MinViableTokens

\* _get_system_prompt, lines 120-128: the example count the system
\* instruction asks for.  max_tokens is the value passed at line 84, the
\* safe output budget, in twentieths.
_get_system_prompt(response_format, max_tokens) ==
    IF response_format = "concise" \/ max_tokens < 800 * TokenScale
    THEN "1-2 examples"
    ELSE IF response_format = "comprehensive" \/ max_tokens > 2500 * TokenScale
    THEN "3-4 examples"
    ELSE "2-3 examples"

\* _build_analogy_prompt, lines 171-180: the example count the user
\* instruction asks for.  max_tokens is the caller's token budget.
_build_analogy_prompt(max_tokens) ==
    IF max_tokens < 1000 THEN "1-2 examples"
    ELSE IF max_tokens > 2500 THEN "3-4 examples"
    ELSE "2-3 examples"

\* temperature without the cap at 1.0
temperature_uncapped(creativity_level) == 30 + 15 * creativity_level

\* line 87: min(0.3 + (creativity_level * 0.15), 1.0), to the nearest
\* hundredth (the float sum is within 1e-15 of it)
temperature(creativity_level) ==
    IF 30 + 15 * creativity_level < 100 THEN 30 + 15 * creativity_level ELSE 100

\* generate_quick_analogy, line 350: 0.3 + (creativity_level * 0.1), to the
\* nearest hundredth
quick_temperature(creativity_level) == 30 + 10 * creativity_level

\* generate_quick_analogy: the output token limit sent to the endpoint
quick_safe_max_tokens(max_tokens, response_length) ==
    LET Min(a, b) == IF a < b THEN a ELSE b
        allocated_tokens ==
            CASE response_length = "short" -> Min(max_tokens, 800)
              [] response_length = "medium" -> Min(max_tokens, 1500)
              [] response_length = "long" -> Min(max_tokens, 2500)
              [] OTHER -> 1500
    IN  IF allocated_tokens - 200 > 300 THEN allocated_tokens - 200 ELSE 300

\* generate_quick_analogy: the dict its except branch returns
quick_fallback(profession, concept, max_tokens, response_length) ==
    [source |-> "fallback",
     concept |-> PyStr(concept),
     profession_context |-> PyStr(profession),
     analogy_title |-> PyStr(T("Understanding ") \o concept \o T(" Through ")
                             \o Title(profession)),
     explanation |-> PyStr(T("Let me explain ") \o concept
                           \o T(" using examples from ") \o profession \o T("...")),
     practical_examples |-> PyList(<< PyStr(T("Example from ") \o profession) >>),
     key_connections |-> PyList(<< PyStr(T("Connection to ") \o profession) >>),
     next_steps |-> PyList(<< PyStr(T("Practice with examples")),
                              PyStr(T("Apply to real scenarios")) >>),
     tokens_allocated |-> quick_safe_max_tokens(max_tokens, response_length),
     response_length |-> response_length]

\* generate_quick_analogy: the dict for one outcome of the external call
generate_quick_analogy(profession, concept, max_tokens, response_length, ext) ==
    LET c == ext.content
        data ==
            IF c.form = "json" /\ Len(c.text) > 0 /\ c.text[1] = "{" THEN c.obj
            ELSE IF Len(c.text) > 0 /\ c.text[1] = "{"
            THEN ("title" :> PyStr(T("Understanding ") \o concept))
                 @@ ("explanation" :> PyStr(c.text))
            ELSE ("title" :> PyStr(T("Quick Explanation")))
                 @@ ("explanation" :> PyStr(c.text))
    IN  IF ext.kind = "raise" \/ c.form = "none"
        THEN quick_fallback(profession, concept, max_tokens, response_length)
        ELSE
        [source |-> "ai",
         concept |-> PyStr(concept),
         profession_context |-> PyStr(profession),
         analogy_title |-> DictGet(data, "title", PyStr(T("Understanding ") \o concept)),
         explanation |-> DictGet(data, "explanation", PyStr(<< >>)),
         practical_examples |-> DictGet(data, "practical_examples", PyList(<< >>)),
         key_connections |-> DictGet(data, "key_connections", PyList(<< >>)),
         next_steps |-> DictGet(data, "next_steps", PyList(<< >>)),
         tokens_allocated |-> quick_safe_max_tokens(max_tokens, response_length),
         response_length |-> response_length]

\* QuickAnalogyResponse(**result): pydantic accepts the dict
QuickResponseValid(result) ==
    /\ IsStr(result.concept) /\ IsStr(result.profession_context)
    /\ IsStr(result.analogy_title) /\ IsStr(result.explanation)
    /\ IsStrList(result.practical_examples)
    /\ IsStrList(result.key_connections)
    /\ IsStrList(result.next_steps)

-----------------------------------------------------------------------------
(* The database                                                             *)

\* the catalog init_db.py seeds, cut down to one profession, two topics and
\* one subtopic (of topic 1)
SeedCatalog ==
    [professions |-> { [id |-> 1, name |-> T("Cooking")] },
     topics |-> { [id |-> 1, name |-> T("Computer Science"),
                   description |-> Some(T("Programming, algorithms, ..."))],
                  [id |-> 2, name |-> T("Mathematics"),
                   description |-> Some(T("Algebra, calculus, ..."))] },
     subtopics |-> { [id |-> 1, topic_id |-> 1, name |-> T("Data Structures"),
                      description |-> Some(T("Arrays, linked lists, ..."))] }]

\* db.query(Model).filter(Model.id == id): the rows with that id
ById(table, id) == { r \in table : r.id = id }

Users == {"u1", "u2"}

\* a learning_sessions row
LearningSession(user_identifier, profession_id, topic_id, subtopic_id, is_active) ==
    [user_identifier |-> user_identifier, profession_id |-> profession_id,
     topic_id |-> topic_id, subtopic_id |-> subtopic_id, is_active |-> is_active]

\* a generated_analogies row; the feedback columns start NULL
GeneratedAnalogy(session_id, concept_name, concept_description, title, explanation, examples) ==
    [session_id |-> session_id, concept_name |-> concept_name,
     concept_description |-> concept_description,
     analogy_title |-> title,
     analogy_explanation |-> explanation,
     analogy_examples |-> examples,
     user_rating |-> None, understanding_score |-> None]

\* database contents the service may start on: a fresh database, or one that
\* holds a session, closed since, with the analogy generated for it
SeedAnalogy ==
    GeneratedAnalogy(1, T("Recursion"), T("A function calling itself"),
                     T("Recursion is like a recipe"), T("..."), << >>)

InitDBs ==
    { [sessions |-> << >>, analogies |-> << >>],
      [sessions |-> << LearningSession("u1", 1, 1, None, FALSE) >>,
       analogies |-> << SeedAnalogy >>] }

-----------------------------------------------------------------------------
(* Requests                                                                 *)

Workers == {1, 2}

Ids == 0..MaxId
OptIds == {None} \cup { Some(i) : i \in Ids }

\* AnalogyRequest bodies (schemas.py 74-83).  The profession is looked up
\* first, so bodies naming no profession are drawn for one user and without
\* a subtopic; bodies naming a profession vary in every field.
GenRequests ==
    { q \in [user_identifier : Users, profession_id : Ids, topic_id : Ids,
             subtopic_id : OptIds, concept_name : {None},
             concept_description : {None}, creative_level : {3}] :
        \/ \E p \in SeedCatalog.professions : p.id = q.profession_id
        \/ q.user_identifier = "u1" /\ IsNone(q.subtopic_id) }

\* feedback bodies as they arrive: the rating is any integer near 1..5
FeedbackRequests ==
    [analogy_id : Ids, user_rating : 0..6, understanding_improved : BOOLEAN]

\* ConceptExplanationRequest bodies (schemas.py 140-145)
QuickRequests ==
    [profession : {T("gaming"), T("Plumber"), << >>},
     concept : {T("recursion")}, context : {None}, creativity_level : {3}]

\* outcomes of the external completion call
ExtOutcomes ==
    { ExtRaise,
      ExtReply(NoContent),
      ExtReply(JsonContent(("title" :> PyStr(T("Stack of plates")))
                           @@ ("explanation" :> PyStr(T("A stack is ..."))),
                           << "{", "...", "}" >>)),
      ExtReply(JsonContent(("title" :> PyNone), << "{", "...", "}" >>)),
      ExtReply(RawContent(<< "{", "oops" >>)),
      ExtReply(RawContent(<< "Imagine", " ", "a", " ", "kitchen" >>)),
      ExtReply(RawContent(<< >>)) }

NoReq == [kind |-> "none"]
NoOut == [kind |-> "none"]

Response(kind, request, status, body) ==
    [kind |-> kind, req |-> request, status |-> status, body |-> body]

NoBody == [empty |-> TRUE]

-----------------------------------------------------------------------------
(* POST /analogies/generate: generate_personalized_analogy                  *)
(* (routers/analogies.py 26-147), one action per database round trip        *)

Idle(w) == pc[w] = "idle"

\* an arriving request goes to the first idle worker
Dispatch(w) == Idle(w) /\ \A v \in Workers : v < w => ~Idle(v)

\* the request leaves the handler with this response
Finish(w, response) ==
    /\ out' = response
    /\ pc' = [pc EXCEPT ![w] = "idle"]
    /\ req' = [req EXCEPT ![w] = NoReq]
    /\ session' = [session EXCEPT ![w] = None]

\* lines 57-63: is the subtopic looked up at all
SubtopicChecked(q) == TruthyInt(q.subtopic_id)

\* ValidationStatus without the topic lookup of lines 47-53
ValidationStatusNoTopic(q) ==
    IF ById(catalog.professions, q.profession_id) = {} THEN HTTP_404
    ELSE IF SubtopicChecked(q) /\ ById(catalog.subtopics, Val(q.subtopic_id)) = {}
    THEN HTTP_404
    ELSE 0

\* lines 38-63: the status validation ends the request with, or 0 to go on
ValidationStatus(q) ==
    IF ById(catalog.professions, q.profession_id) = {} THEN HTTP_404
    ELSE IF ById(catalog.topics, q.topic_id) = {} THEN HTTP_404
    ELSE IF SubtopicChecked(q) /\ ById(catalog.subtopics, Val(q.subtopic_id)) = {}
    THEN HTTP_404
    ELSE 0

\* ActiveSessions with the topic filter comparing against the wrong column
ActiveSessionsWrongColumn(q) ==
    { i \in DOMAIN sessions :
        /\ sessions[i].user_identifier = q.user_identifier
        /\ sessions[i].profession_id = q.profession_id
        /\ sessions[i].topic_id = q.profession_id
        /\ sessions[i].is_active }

\* lines 70-75: the active sessions of the request's (user, profession, topic)
ActiveSessions(q) ==
    { i \in DOMAIN sessions :
        /\ sessions[i].user_identifier = q.user_identifier
        /\ sessions[i].profession_id = q.profession_id
        /\ sessions[i].topic_id = q.topic_id
        /\ sessions[i].is_active }

\* workers whose request may still insert a session row
MayInsert == { v \in Workers : pc[v] \in {"lookup", "create"} }

\* GenValidate with the session row written before the ids are validated
GenValidateAfterWrite(w, q) ==
    /\ Dispatch(w)
    /\ Len(sessions) < MaxSessions
    /\ sessions' = Append(sessions,
           LearningSession(q.user_identifier, q.profession_id, q.topic_id,
                           q.subtopic_id, TRUE))
    /\ IF ValidationStatus(q) # 0
       THEN /\ Finish(w, Response("generate", q, ValidationStatus(q), NoBody))
            /\ UNCHANGED <<catalog, analogies, svcIn, svcOut>>
       ELSE /\ pc' = [pc EXCEPT ![w] = "generate"]
            /\ req' = [req EXCEPT ![w] = q]
            /\ session' = [session EXCEPT ![w] = Some(Len(sessions) + 1)]
            /\ out' = NoOut
            /\ UNCHANGED <<catalog, analogies, svcIn, svcOut>>

\* lines 38-67: the request arrives and is validated against the catalog
GenValidate(w, q) ==
    /\ Dispatch(w)
    /\ IF ValidationStatus(q) # 0
       THEN /\ Finish(w, Response("generate", q, ValidationStatus(q), NoBody))
            /\ UNCHANGED <<catalog, sessions, analogies, svcIn, svcOut>>
       ELSE /\ \/ ActiveSessions(q) # {}
               \/ Len(sessions) + Cardinality(MayInsert) < MaxSessions
            /\ pc' = [pc EXCEPT ![w] = "lookup"]
            /\ req' = [req EXCEPT ![w] = q]
            /\ out' = NoOut
            /\ UNCHANGED <<catalog, sessions, analogies, session, svcIn, svcOut>>

\* lines 70-77: the session lookup; .first() returns any matching row
GenLookupSession(w) ==
    /\ pc[w] = "lookup"
    /\ IF ActiveSessions(req[w]) = {}
       THEN /\ pc' = [pc EXCEPT ![w] = "create"]
            /\ UNCHANGED session
       ELSE \E i \in ActiveSessions(req[w]) :
            /\ session' = [session EXCEPT ![w] = Some(i)]
            /\ pc' = [pc EXCEPT ![w] = "generate"]
    /\ UNCHANGED <<catalog, sessions, analogies, req, out, svcIn, svcOut>>

\* the new row violates the foreign key learning_sessions.subtopic_id
SubtopicKeyViolated(q) ==
    ~IsNone(q.subtopic_id) /\ ById(catalog.subtopics, Val(q.subtopic_id)) = {}

\* GenCreateSession as an atomic find-or-create: the commit looks again and
\* takes a session another request has committed meanwhile
GenCreateSessionAtomic(w) ==
    /\ pc[w] = "create"
    /\ IF ActiveSessions(req[w]) # {}
       THEN /\ session' = [session EXCEPT ![w] =
                               Some(CHOOSE i \in ActiveSessions(req[w]) : TRUE)]
            /\ UNCHANGED sessions
       ELSE /\ sessions' = Append(sessions,
                   LearningSession(req[w].user_identifier, req[w].profession_id,
                                   req[w].topic_id, req[w].subtopic_id, TRUE))
            /\ session' = [session EXCEPT ![w] = Some(Len(sessions) + 1)]
    /\ pc' = [pc EXCEPT ![w] = "generate"]
    /\ UNCHANGED <<catalog, analogies, req, out, svcIn, svcOut>>

\* GenCreateSession with the row added but not committed before the
\* generation step, so that a later failure discards it
GenCreateSessionUncommitted(w) ==
    /\ pc[w] = "create"
    /\ session' = [session EXCEPT ![w] = Some(Len(sessions) + 1)]
    /\ pc' = [pc EXCEPT ![w] = "generate"]
    /\ UNCHANGED <<catalog, sessions, analogies, req, out, svcIn, svcOut>>

\* lines 77-87: no session was found: insert one and commit.  The database
\* enforces the foreign keys models.py declares, and rejects a subtopic_id
\* naming no subtopic (IntegrityError at the commit).
GenCreateSession(w) ==
    /\ pc[w] = "create"
    /\ IF SubtopicKeyViolated(req[w])
       THEN /\ Finish(w, Response("generate", req[w], HTTP_500, NoBody))
            /\ UNCHANGED <<catalog, sessions, analogies, svcIn, svcOut>>
       ELSE /\ sessions' = Append(sessions,
                   LearningSession(req[w].user_identifier, req[w].profession_id,
                                   req[w].topic_id, req[w].subtopic_id, TRUE))
            /\ session' = [session EXCEPT ![w] = Some(Len(sessions) + 1)]
            /\ pc' = [pc EXCEPT ![w] = "generate"]
            /\ UNCHANGED <<catalog, analogies, req, out, svcIn, svcOut>>

\* lines 89-147: log, call the service, store the analogy, answer.  Reading
\* an attribute the request schema does not declare raises AttributeError.
\* svcIn and svcOut record the service call once it has been made.
GenGenerate(w, ext) ==
    /\ pc[w] = "generate"
    /\ LET q == req[w]
           profession == CHOOSE p \in catalog.professions : p.id = q.profession_id
           topic == CHOOSE t \in catalog.topics : t.id = q.topic_id
           subs == IF SubtopicChecked(q)
                   THEN ById(catalog.subtopics, Val(q.subtopic_id)) ELSE {}
           subtopic == CHOOSE x \in subs : TRUE
           concept_name ==
               OrStr(q.concept_name,
                     IF subs # {} THEN Some(subtopic.name) ELSE Some(topic.name))
           concept_description ==
               OrStr(q.concept_description,
                     IF subs # {} THEN subtopic.description ELSE topic.description)
           result == generate_analogy(profession.name, Val(concept_name),
                                      concept_description, ext)
           call == [fn |-> "generate_analogy", profession |-> profession.name,
                    concept_name |-> Val(concept_name),
                    concept_description |-> concept_description, ext |-> ext]
           row == GeneratedAnalogy(Val(session[w]), Val(concept_name),
                                   Fmt(concept_description), result.title.s,
                                   result.explanation.s, result.examples)
       IN  IF ~(GenerateReads \subseteq AnalogyRequestFields)
           THEN /\ Finish(w, Response("generate", q, HTTP_500, NoBody))
                /\ UNCHANGED <<catalog, sessions, analogies, svcIn, svcOut>>
           ELSE IF \/ result.raised
                   \/ IsNone(concept_description)
                   \/ ~IsStr(result.title) \/ ~IsStr(result.explanation)
           THEN /\ Finish(w, Response("generate", q, HTTP_500, NoBody))
                /\ svcIn' = call /\ svcOut' = result
                /\ UNCHANGED <<catalog, sessions, analogies>>
           ELSE /\ Len(analogies) < MaxAnalogies
                /\ analogies' = Append(analogies, row)
                /\ Finish(w, Response("generate", q, HTTP_200,
                       [analogy_id |-> Len(analogies) + 1,
                        session_id |-> Val(session[w]),
                        analogy_title |-> result.title.s,
                        analogy_explanation |-> result.explanation.s,
                        examples |-> result.examples]))
                /\ svcIn' = call /\ svcOut' = result
                /\ UNCHANGED <<catalog, sessions>>

-----------------------------------------------------------------------------
(* POST /analogies/feedback: submit_analogy_feedback (lines 149-192)        *)

\* UnderstandingScore without the cap at 1.0
UnderstandingScoreUncapped(user_rating, understanding_improved) ==
    (user_rating * 100) \div 5 + (IF understanding_improved THEN 20 ELSE 0)

\* lines 168-170: the understanding score, in hundredths
UnderstandingScore(user_rating, understanding_improved) ==
    LET base == (user_rating * 100) \div 5
    IN  IF understanding_improved
        THEN (IF base + 20 < 100 THEN base + 20 ELSE 100)
        ELSE base

\* ApplyFeedback also rewriting the stored title
ApplyFeedbackRetitle(row, f) ==
    [row EXCEPT !.user_rating = Some(f.user_rating),
                !.understanding_score =
                    Some(UnderstandingScore(f.user_rating, f.understanding_improved)),
                !.analogy_title = T("Rated")]

\* ApplyFeedback storing the rating and leaving the score as it was
ApplyFeedbackRatingOnly(row, f) ==
    [row EXCEPT !.user_rating = Some(f.user_rating)]

\* lines 164-174: the row after the feedback is applied
ApplyFeedback(row, f) ==
    [row EXCEPT !.user_rating = Some(f.user_rating),
                !.understanding_score =
                    Some(UnderstandingScore(f.user_rating, f.understanding_improved))]

\* FeedbackUnknown with the 404 swallowed by the generic handler
FeedbackUnknown500(f) ==
    /\ out' = Response("feedback", f, HTTP_500, NoBody)
    /\ UNCHANGED analogies

\* lines 157-162: unknown analogy: 404, nothing written
FeedbackUnknown(f) ==
    /\ out' = Response("feedback", f, HTTP_404, NoBody)
    /\ UNCHANGED analogies

\* AnalogyFeedback validation with the rating's range not declared
FeedbackBodyAny(f) == TRUE

\* AnalogyFeedback (schemas.py 133-138): user_rating has ge=1, le=5
FeedbackBodyValid(f) == f.user_rating >= 1 /\ f.user_rating <= 5

\* submit_analogy_feedback, with the validation of its body: a body the
\* schema rejects is answered 422 and the handler does not run
Feedback(f) ==
    /\ IF ~FeedbackBodyValid(f)
       THEN /\ out' = Response("validation", f, HTTP_422, NoBody)
            /\ UNCHANGED analogies
       ELSE IF f.analogy_id \notin DOMAIN analogies
       THEN FeedbackUnknown(f)
       ELSE /\ analogies' = [analogies EXCEPT ![f.analogy_id] = ApplyFeedback(@, f)]
            /\ out' = Response("feedback", f, HTTP_200,
                   [analogy_id |-> f.analogy_id, rating |-> f.user_rating,
                    understanding_score |->
                        UnderstandingScore(f.user_rating, f.understanding_improved)])
    /\ UNCHANGED <<catalog, sessions, pc, req, session, svcIn, svcOut>>

-----------------------------------------------------------------------------
(* POST /analogies/quick-explain: quick_concept_explanation (lines 325-352) *)

\* the defaults of generate_quick_analogy's max_tokens and response_length
QuickDefaultMaxTokens == 1500
QuickDefaultLength == "medium"

\* QuickWrites storing the explanation as an analogy row
QuickWritesRow ==
    /\ analogies' = Append(analogies, SeedAnalogy)
    /\ UNCHANGED sessions

\* lines 333-352: the tables the handler writes: none
QuickWrites == UNCHANGED <<sessions, analogies>>

\* quick_concept_explanation
QuickExplain(q, ext) ==
    /\ LET result == generate_quick_analogy(q.profession, q.concept,
                         QuickDefaultMaxTokens, QuickDefaultLength, ext)
       IN  out' =
             IF ~(QuickReads \subseteq ConceptExplanationRequestFields)
             THEN Response("quick", q, HTTP_500, NoBody)
             ELSE IF ~QuickResponseValid(result)
             THEN Response("quick", q, HTTP_500, NoBody)
             ELSE Response("quick", q, HTTP_200,
                      [f \in QuickAnalogyResponseFields \ {"generation_time"}
                          |-> result[f]])
    /\ QuickWrites
    /\ UNCHANGED <<catalog, pc, req, session, svcIn, svcOut>>

-----------------------------------------------------------------------------
(* GET /professions/{id} (routers/professions.py 40-73) and GET              *)
(* /topics/{id}, /topics/{id}/subtopics, /topics/{id}/with-subtopics         *)
(* (routers/topics.py 40-202).  None of them writes.                         *)

\* the limit query parameter of /subtopics: absent, or an integer (ge=1)
Limits == { None, Some(1) }

\* a catalog read answers and leaves every table as it is
AnswerRead(kind, request, status, body) ==
    /\ out' = Response(kind, request, status, body)
    /\ UNCHANGED <<catalog, sessions, analogies, pc, req, session, svcIn, svcOut>>

\* get_profession
GetProfession(id) ==
    IF ById(catalog.professions, id) = {}
    THEN AnswerRead("get_profession", [id |-> id], HTTP_404, NoBody)
    ELSE AnswerRead("get_profession", [id |-> id], HTTP_200,
                    CHOOSE p \in catalog.professions : p.id = id)

\* get_topic
GetTopic(id) ==
    IF ById(catalog.topics, id) = {}
    THEN AnswerRead("get_topic", [id |-> id], HTTP_404, NoBody)
    ELSE AnswerRead("get_topic", [id |-> id], HTTP_200,
                    CHOOSE t \in catalog.topics : t.id = id)

\* get_topic_subtopics.  With a limit the query is built as
\* query.limit(limit).order_by(...) (lines 117-124); SQLAlchemy's Query
\* refuses order_by() once LIMIT is applied and raises InvalidRequestError,
\* a SQLAlchemyError, which the handler answers with 500.
GetTopicSubtopics(id, limit) ==
    LET request == [id |-> id, limit |-> limit]
    IN  IF ById(catalog.topics, id) = {}
        THEN AnswerRead("get_topic_subtopics", request, HTTP_404, NoBody)
        ELSE IF TruthyInt(limit)
        THEN AnswerRead("get_topic_subtopics", request, HTTP_500, NoBody)
        ELSE AnswerRead("get_topic_subtopics", request, HTTP_200,
                        [id |-> id,
                         subtopics |-> { x \in catalog.subtopics : x.topic_id = id }])

\* get_topic_with_subtopics
GetTopicWithSubtopics(id) ==
    IF ById(catalog.topics, id) = {}
    THEN AnswerRead("get_topic_with_subtopics", [id |-> id], HTTP_404, NoBody)
    ELSE AnswerRead("get_topic_with_subtopics", [id |-> id], HTTP_200,
                    [id |-> id,
                     topic |-> CHOOSE t \in catalog.topics : t.id = id,
                     subtopics |-> { x \in catalog.subtopics : x.topic_id = id }])

-----------------------------------------------------------------------------
(* Service-level calls: the service functions applied to drawn arguments    *)

ProfessionNames ==
    { T(w) : w \in UNION { {f.lower, f.title, f.upper} : f \in CaseForms } }
    \cup { T("Data"), << >> }

ConceptNames == { T("recursion"), << >> }
ConceptDescriptions == { None, Some(T("a self-referential definition")), Some(<< >>) }

NoCall == [fn |-> "none"]

\* analogy_service.generate_analogy(profession, concept_name, concept_description)
SvcGenerateAnalogy(profession, concept_name, concept_description, ext) ==
    /\ svcIn' = [fn |-> "generate_analogy", profession |-> profession,
                 concept_name |-> concept_name,
                 concept_description |-> concept_description, ext |-> ext]
    /\ svcOut' = generate_analogy(profession, concept_name, concept_description, ext)
    /\ UNCHANGED <<catalog, sessions, analogies, pc, req, session, out>>

\* analogy_service._generate_fallback_analogy(profession, concept_name, ...)
SvcFallback(profession, concept_name, concept_description) ==
    /\ svcIn' = [fn |-> "_generate_fallback_analogy", profession |-> profession,
                 concept_name |-> concept_name,
                 concept_description |-> concept_description, ext |-> ExtRaise]
    /\ svcOut' = _generate_fallback_analogy(profession, concept_name,
                                            concept_description)
    /\ UNCHANGED <<catalog, sessions, analogies, pc, req, session, out>>

\* the max_tokens arguments and prompt word counts drawn
TokenBudgets == {100, 401, 500, 1000, 2000, 4000}
PromptWords == {0, 1, 9, 10, 96, 97, 100, 154, 155, 385, 1000, 4000}

\* generate_analogy, lines 74-76: the budget computed for a prompt
SvcTokenBudget(max_tokens, words) ==
    /\ svcIn' = [fn |-> "safe_max_tokens", max_tokens |-> max_tokens, words |-> words]
    /\ svcOut' = [value |-> safe_max_tokens(max_tokens, words)]
    /\ UNCHANGED <<catalog, sessions, analogies, pc, req, session, out>>

\* a text of n characters: an opening character and a filler
LongText(first, n) == [i \in 1..n |-> IF i = 1 THEN first ELSE "x"]

\* the JSON values a reply may hold under a key
JsonValues ==
    { PyStr(T("text")), PyStr(<< >>), PyNone, PyNum, PyList(<< >>),
      PyList(<< PyDict(("title" :> PyStr(T("Ex"))) @@ ("description" :> PyStr(T("d")))),
                PyStr(T("stray")) >>),
      PyList(<< PyDict(("title" :> PyNum)) >>),
      PyDict(("k" :> PyStr(T("v")))) }

\* JSON objects with any subset of the keys title (any value), explanation
\* and examples
JsonObjects ==
    { << >> }
    \cup { ("title" :> v) : v \in JsonValues }
    \cup { ("explanation" :> v) : v \in JsonValues }
    \cup { ("examples" :> v) : v \in JsonValues }
    \cup { ("title" :> PyStr(T("Stack of plates"))) @@ ("explanation" :> PyStr(T("A stack is ...")))
           @@ ("examples" :> v) : v \in JsonValues }

\* completion texts: JSON objects, malformed JSON, plain text, blank and
\* empty text, short and longer than the truncation length, and no text
ParseContents ==
    { JsonContent(d, << "{", "...", "}" >>) : d \in JsonObjects }
    \cup { JsonContent(("examples" :> PyNum), LongText("{", TruncateAt + 1)) }
    \cup { RawContent(s) : s \in
             { << "{", "oops" >>, << " ", "\n", "{", "oops" >>, << "{" >>,
               LongText("{", TruncateAt - 1), LongText("{", TruncateAt),
               LongText("{", TruncateAt + 1), LongText("{", TruncateAt + 3),
               << " ", "{" >> \o LongText("y", TruncateAt),
               << "Imagine", " ", "a", " ", "kitchen" >>,
               << " ", "\n", "plain", " ", "text", "\n" >>,
               << "x", "{", "}" >>, << "\"", "Think of", "\"", "\n", "it" >>,
               LongText("z", TruncateAt + 1),
               << >>, << " " >>, << "\n", " " >> } }
    \cup { NoContent }

\* analogy_service._parse_analogy_response(content)
SvcParse(content) ==
    /\ svcIn' = [fn |-> "_parse_analogy_response", content |-> content]
    /\ svcOut' = _parse_analogy_response(content)
    /\ UNCHANGED <<catalog, sessions, analogies, pc, req, session, out>>

\* the arguments generate_analogy and generate_quick_analogy are called with
RequestBudgets == {100, 500, 799, 800, 999, 1000, 1100, 2500, 2501, 3400, 4000}
\* word counts of the prompt: the template with empty arguments has 149
\* words, with the seeded names about 170 to 185
RequestWords == {149, 172, 184, 1000}
ResponseFormats == {"concise", "detailed", "comprehensive", "brief"}
CreativityLevels == 1..5
QuickBudgets == {100, 500, 1000, 1500, 3000}
ResponseLengths == {"short", "medium", "long", "huge"}

\* generate_analogy, lines 67-89: the completion request that is sent
SvcCompletionRequest(max_tokens, response_format, creativity_level, words) ==
    /\ svcIn' = [fn |-> "generate_analogy: request", max_tokens |-> max_tokens,
                 response_format |-> response_format,
                 creativity_level |-> creativity_level, words |-> words]
    /\ svcOut' = [system_examples |->
                      _get_system_prompt(response_format,
                                         safe_max_tokens(max_tokens, words)),
                  user_examples |-> _build_analogy_prompt(max_tokens),
                  temperature |-> temperature(creativity_level),
                  max_tokens |-> safe_max_tokens(max_tokens, words) \div TokenScale]
    /\ UNCHANGED <<catalog, sessions, analogies, pc, req, session, out>>

\* generate_quick_analogy, lines 311-352: the completion request that is sent
SvcQuickRequest(max_tokens, response_length, creativity_level) ==
    /\ svcIn' = [fn |-> "generate_quick_analogy: request",
                 max_tokens |-> max_tokens, response_length |-> response_length,
                 creativity_level |-> creativity_level]
    /\ svcOut' = [temperature |-> quick_temperature(creativity_level),
                  max_tokens |-> quick_safe_max_tokens(max_tokens, response_length)]
    /\ UNCHANGED <<catalog, sessions, analogies, pc, req, session, out>>

-----------------------------------------------------------------------------
(* generate_analogy step by step (lines 65-114): the try block makes the    *)
(* completion call and parses the reply; any exception goes to the except   *)
(* branch.  svcOut holds the position in the function and the number of     *)
(* completion calls made so far.                                            *)

StepProfessions == { T("cooking"), T("Data") }

InSteps == svcIn.fn = "generate_analogy: steps"

\* AfterFailure with the except branch trying the call again
AfterFailureRetry == "try"

\* lines 111-114: where control goes when the try block raises
AfterFailure == "except"

\* line 49: the function is entered (no run of it is under way)
SvcEnter(profession, concept_name) ==
    /\ IF InSteps THEN svcOut.stage = "returned" ELSE TRUE
    /\ svcIn' = [fn |-> "generate_analogy: steps", profession |-> profession,
                 concept_name |-> concept_name, concept_description |-> None]
    /\ svcOut' = [stage |-> "try", calls |-> 0, failed |-> FALSE]
    /\ UNCHANGED <<catalog, sessions, analogies, pc, req, session, out>>

\* lines 81-92: self.client.chat.completions.create(...) returns or raises
SvcCallCompletion(ext) ==
    /\ InSteps /\ svcOut.stage = "try"
    /\ svcOut' = IF ext.kind = "raise"
                 THEN [stage |-> AfterFailure, calls |-> svcOut.calls + 1,
                       failed |-> TRUE]
                 ELSE [stage |-> "parse", calls |-> svcOut.calls + 1,
                       failed |-> FALSE, content |-> ext.content]
    /\ UNCHANGED <<catalog, sessions, analogies, pc, req, session, out, svcIn>>

\* lines 93-109: the reply is parsed and the tuple returned
SvcParseReply ==
    /\ InSteps /\ svcOut.stage = "parse"
    /\ LET parsed == _parse_analogy_response(svcOut.content)
       IN  svcOut' = IF parsed.raised
                     THEN [stage |-> AfterFailure, calls |-> svcOut.calls,
                           failed |-> TRUE]
                     ELSE [stage |-> "returned", calls |-> svcOut.calls,
                           failed |-> FALSE, source |-> "ai",
                           title |-> parsed.title,
                           explanation |-> parsed.explanation,
                           examples |-> parsed.examples]
    /\ UNCHANGED <<catalog, sessions, analogies, pc, req, session, out, svcIn>>

\* lines 111-114: the except branch returns the fallback analogy
SvcExcept ==
    /\ InSteps /\ svcOut.stage = "except"
    /\ LET r == generate_analogy_except(svcIn.profession, svcIn.concept_name,
                                        svcIn.concept_description)
       IN  svcOut' = [stage |-> "returned", calls |-> svcOut.calls,
                      failed |-> TRUE, source |-> r.source, title |-> r.title,
                      explanation |-> r.explanation, examples |-> r.examples]
    /\ UNCHANGED <<catalog, sessions, analogies, pc, req, session, out, svcIn>>

-----------------------------------------------------------------------------
(* init_db.py: main() seeds the catalog tables, one transaction per table.  *)
(* svcOut holds the position in main and the topic_dict it carries; `out`   *)
(* holds what the latest finished run of main returned.                     *)

\* the rows init_db.py defines, cut down as SeedCatalog is
professions_data == << [name |-> T("Cooking")] >>

topics_data ==
    << [name |-> T("Computer Science"),
        description |-> Some(T("Programming, algorithms, ..."))],
       [name |-> T("Mathematics"),
        description |-> Some(T("Algebra, calculus, ..."))] >>

\* subtopics_data, flattened: each entry under the name of its topic
subtopics_data ==
    << [topic |-> T("Computer Science"), name |-> T("Data Structures"),
        description |-> Some(T("Arrays, linked lists, ..."))] >>

\* a table's id sequence hands out base + 1, base + 2, ...: 0 on a fresh
\* database, more once ids have been used
SequenceBases == {0, 2}

\* lines 41-76: professions are inserted only into an empty table
seed_professions(cat, base) ==
    IF Cardinality(cat.professions) > 0 THEN cat
    ELSE [cat EXCEPT !.professions =
             { [id |-> base + i, name |-> professions_data[i].name]
                 : i \in DOMAIN professions_data }]

\* lines 92-147: topics are inserted only into an empty table
seed_topics(cat, base) ==
    IF Cardinality(cat.topics) > 0 THEN cat
    ELSE [cat EXCEPT !.topics =
             { [id |-> base + i, name |-> topics_data[i].name,
                description |-> topics_data[i].description]
                 : i \in DOMAIN topics_data }]

\* lines 98-99 and 154: {topic.name: topic.id} over the topics table
TopicDict(cat) ==
    [n \in { t.name : t \in cat.topics } |->
        (CHOOSE t \in cat.topics : t.name = n).id]

\* lines 226-234: the subtopics built from topic_dict; an entry whose topic
\* name is not a key, or maps to 0, is left out
AllSubtopics(topic_dict) ==
    SelectSeq(subtopics_data,
              LAMBDA d : d.topic \in DOMAIN topic_dict /\ topic_dict[d.topic] # 0)

\* seed_subtopics without the existing-rows check of lines 172-175
seed_subtopics_always(cat, topic_dict, base) ==
    LET all_subtopics == AllSubtopics(topic_dict)
        top == IF cat.subtopics = {} THEN base
               ELSE CHOOSE m \in { x.id : x \in cat.subtopics } :
                        \A x \in cat.subtopics : x.id <= m
    IN  [cat EXCEPT !.subtopics = cat.subtopics \cup
             { [id |-> top + i, topic_id |-> topic_dict[all_subtopics[i].topic],
                name |-> all_subtopics[i].name,
                description |-> all_subtopics[i].description]
                 : i \in DOMAIN all_subtopics }]

\* lines 170-238: subtopics are inserted only into an empty table
seed_subtopics(cat, topic_dict, base) ==
    LET all_subtopics == AllSubtopics(topic_dict)
    IN  IF Cardinality(cat.subtopics) > 0 THEN cat
        ELSE [cat EXCEPT !.subtopics =
             { [id |-> base + i, topic_id |-> topic_dict[all_subtopics[i].topic],
                name |-> all_subtopics[i].name,
                description |-> all_subtopics[i].description]
                 : i \in DOMAIN all_subtopics }]

\* lines 254-269: verify_setup's verdict
verify_setup(cat) ==
    /\ Cardinality(cat.professions) > 0
    /\ Cardinality(cat.topics) > 0
    /\ Cardinality(cat.subtopics) > 0

\* catalogs main may be started on: an empty database, one already seeded,
\* ones a failed earlier run left partly seeded, one whose topics carry
\* later ids, and ones holding topics of other names
InitCatalogs ==
    { [professions |-> {}, topics |-> {}, subtopics |-> {}],
      SeedCatalog,
      [SeedCatalog EXCEPT !.topics = {}, !.subtopics = {}],
      [SeedCatalog EXCEPT !.subtopics = {}],
      [professions |-> {}, subtopics |-> {},
       topics |-> { [id |-> 3, name |-> T("Computer Science"), description |-> None],
                    [id |-> 4, name |-> T("Mathematics"), description |-> None] }],
      [professions |-> {}, subtopics |-> {},
       topics |-> { [id |-> 1, name |-> T("Mathematics"), description |-> None] }],
      [professions |-> {}, subtopics |-> {},
       topics |-> { [id |-> 1, name |-> T("Biology"), description |-> None] }] }

\* no call of main or create_db_engine is under way
NoneRunning ==
    IF svcIn.fn = "none" THEN TRUE ELSE svcOut.stage \in {"returned", "raised"}

InMain(stage) == svcIn.fn = "init_db.main" /\ svcOut.stage = stage

\* main goes on to its next step
MainGoes(stage, topic_dict) ==
    /\ svcOut' = [stage |-> stage, topic_dict |-> topic_dict]
    /\ UNCHANGED out

\* main returns (lines 282-323)
MainReturns(result) ==
    /\ svcOut' = [stage |-> "returned", topic_dict |-> svcOut.topic_dict]
    /\ out' = [kind |-> "init_db.main", success |-> result]

\* line 277: main is entered
MainEnter ==
    /\ NoneRunning
    /\ svcIn' = [fn |-> "init_db.main"]
    /\ svcOut' = [stage |-> "wait_for_db", topic_dict |-> << >>]
    /\ UNCHANGED <<catalog, sessions, analogies, pc, req, session, out>>

\* lines 282-284: wait_for_db reports the database ready, or times out
MainWaitForDb(ready) ==
    /\ InMain("wait_for_db")
    /\ IF ready THEN MainGoes("create_tables", svcOut.topic_dict)
       ELSE MainReturns(FALSE)
    /\ UNCHANGED <<catalog, sessions, analogies, pc, req, session, svcIn>>

\* lines 287-289: create_tables; existing tables and their rows are kept
MainCreateTables(ok) ==
    /\ InMain("create_tables")
    /\ IF ok THEN MainGoes("seed_professions", svcOut.topic_dict)
       ELSE MainReturns(FALSE)
    /\ UNCHANGED <<catalog, sessions, analogies, pc, req, session, svcIn>>

\* lines 292-294: seed_professions commits, or fails and rolls back
MainSeedProfessions(ok, base) ==
    /\ InMain("seed_professions")
    /\ IF ok
       THEN /\ catalog' = seed_professions(catalog, base)
            /\ MainGoes("seed_topics", svcOut.topic_dict)
       ELSE /\ UNCHANGED catalog
            /\ MainReturns(FALSE)
    /\ UNCHANGED <<sessions, analogies, pc, req, session, svcIn>>

\* lines 297-306: seed_topics commits and returns topic_dict, or fails
MainSeedTopics(ok, base) ==
    /\ InMain("seed_topics")
    /\ IF ok
       THEN /\ catalog' = seed_topics(catalog, base)
            /\ MainGoes("seed_subtopics", TopicDict(seed_topics(catalog, base)))
       ELSE /\ UNCHANGED catalog
            /\ MainReturns(FALSE)
    /\ UNCHANGED <<sessions, analogies, pc, req, session, svcIn>>

\* lines 309-314: seed_subtopics if topic_dict is not empty
MainSeedSubtopics(ok, base) ==
    /\ InMain("seed_subtopics")
    /\ IF DOMAIN svcOut.topic_dict = {}
       THEN /\ UNCHANGED catalog
            /\ MainGoes("verify_setup", svcOut.topic_dict)
       ELSE IF ok
       THEN /\ catalog' = seed_subtopics(catalog, svcOut.topic_dict, base)
            /\ MainGoes("verify_setup", svcOut.topic_dict)
       ELSE /\ UNCHANGED catalog
            /\ MainReturns(FALSE)
    /\ UNCHANGED <<sessions, analogies, pc, req, session, svcIn>>

\* lines 317-323: verify_setup decides what main returns
MainVerifySetup(ok) ==
    /\ InMain("verify_setup")
    /\ MainReturns(ok /\ verify_setup(catalog))
    /\ UNCHANGED <<catalog, sessions, analogies, pc, req, session, svcIn>>

-----------------------------------------------------------------------------
(* database.py: create_db_engine(max_retries, retry_delay), step by step.   *)
(* svcOut holds the loop variable, the connection attempts made, the waits  *)
(* made and whether an engine is returned.                                  *)

RetryCounts == 0..3
RetryDelays == {0, 5}

InEngine(stage) == svcIn.fn = "create_db_engine" /\ svcOut.stage = stage

\* line 18: the function is called
EngineCall(max_retries, retry_delay) ==
    /\ NoneRunning
    /\ svcIn' = [fn |-> "create_db_engine", max_retries |-> max_retries,
                 retry_delay |-> retry_delay]
    /\ svcOut' = [stage |-> "for", attempt |-> 0, connects |-> 0, sleeps |-> 0,
                  waited |-> 0, engine |-> FALSE]
    /\ UNCHANGED <<catalog, sessions, analogies, pc, req, session, out>>

\* line 19: for attempt in range(max_retries); when the range is exhausted
\* the function falls off its end and returns None
EngineFor ==
    /\ InEngine("for")
    /\ svcOut' = IF svcOut.attempt < svcIn.max_retries
                 THEN [svcOut EXCEPT !.stage = "try"]
                 ELSE [svcOut EXCEPT !.stage = "returned", !.engine = FALSE]
    /\ UNCHANGED <<catalog, sessions, analogies, pc, req, session, out, svcIn>>

\* lines 20-28: create_engine and engine.connect() succeed, or raise
EngineConnect(ok) ==
    /\ InEngine("try")
    /\ svcOut' = IF ok
                 THEN [svcOut EXCEPT !.stage = "returned", !.engine = TRUE,
                                     !.connects = @ + 1]
                 ELSE [svcOut EXCEPT !.stage = "except", !.connects = @ + 1]
    /\ UNCHANGED <<catalog, sessions, analogies, pc, req, session, out, svcIn>>

\* lines 29-36: sleep and go round again, or re-raise after the last attempt
EngineExcept ==
    /\ InEngine("except")
    /\ svcOut' = IF svcOut.attempt < svcIn.max_retries - 1
                 THEN [svcOut EXCEPT !.stage = "for", !.attempt = @ + 1,
                                     !.sleeps = @ + 1,
                                     !.waited = @ + svcIn.retry_delay]
                 ELSE [svcOut EXCEPT !.stage = "raised"]
    /\ UNCHANGED <<catalog, sessions, analogies, pc, req, session, out, svcIn>>

-----------------------------------------------------------------------------
(* Specifications                                                           *)

Init ==
    /\ catalog = SeedCatalog
    /\ \E db \in InitDBs : sessions = db.sessions /\ analogies = db.analogies
    /\ pc = [w \in Workers |-> "idle"]
    /\ req = [w \in Workers |-> NoReq]
    /\ session = [w \in Workers |-> None]
    /\ out = NoOut
    /\ svcIn = NoCall
    /\ svcOut = NoCall

AllIdle == \A w \in Workers : Idle(w)
OthersIdle(w) == \A v \in Workers \ {w} : Idle(v)

\* requests handled one at a time, each from arrival to response
Next ==
    \/ \E w \in Workers, q \in GenRequests : AllIdle /\ GenValidate(w, q)
    \/ \E w \in Workers : OthersIdle(w) /\ GenLookupSession(w)
    \/ \E w \in Workers : OthersIdle(w) /\ GenCreateSession(w)
    \/ \E w \in Workers, ext \in ExtOutcomes : OthersIdle(w) /\ GenGenerate(w, ext)
    \/ \E f \in FeedbackRequests : AllIdle /\ Feedback(f)
    \/ \E q \in QuickRequests, ext \in ExtOutcomes : AllIdle /\ QuickExplain(q, ext)
    \/ \E id \in Ids : AllIdle /\ GetProfession(id)
    \/ \E id \in Ids : AllIdle /\ GetTopic(id)
    \/ \E id \in Ids, limit \in Limits : AllIdle /\ GetTopicSubtopics(id, limit)
    \/ \E id \in Ids : AllIdle /\ GetTopicWithSubtopics(id)

Spec == Init /\ [][Next]_vars

\* the generate requests of the interleaved specification
RaceRequests ==
    { q \in GenRequests :
        /\ q.user_identifier = "u1" /\ q.profession_id = 1
        /\ q.topic_id \in {0, 1, 2} /\ IsNone(q.subtopic_id)
        /\ IsNone(q.concept_name) }

RaceFeedback == { f \in FeedbackRequests : f.user_rating = 4 }

\* requests handled by concurrent workers, interleaved at the database
\* round trips
NextConc ==
    \/ \E w \in Workers, q \in RaceRequests : GenValidate(w, q)
    \/ \E w \in Workers : GenLookupSession(w)
    \/ \E w \in Workers : GenCreateSession(w)
    \/ \E w \in Workers, ext \in ExtOutcomes : GenGenerate(w, ext)
    \/ \E f \in RaceFeedback : Feedback(f)

SpecConc == Init /\ [][NextConc]_vars

InitSvc ==
    /\ catalog = SeedCatalog
    /\ sessions = << >> /\ analogies = << >>
    /\ pc = [w \in Workers |-> "idle"]
    /\ req = [w \in Workers |-> NoReq]
    /\ session = [w \in Workers |-> None]
    /\ out = NoOut
    /\ svcIn = NoCall
    /\ svcOut = NoCall

NextSvc ==
    \/ \E p \in ProfessionNames, c \in ConceptNames, d \in ConceptDescriptions,
          ext \in ExtOutcomes : SvcGenerateAnalogy(p, c, d, ext)
    \/ \E p \in ProfessionNames, c \in ConceptNames, d \in ConceptDescriptions :
          SvcFallback(p, c, d)
    \/ \E m \in TokenBudgets, n \in PromptWords : SvcTokenBudget(m, n)
    \/ \E c \in ParseContents : SvcParse(c)
    \/ \E p \in StepProfessions, c \in ConceptNames : SvcEnter(p, c)
    \/ \E ext \in ExtOutcomes : SvcCallCompletion(ext)
    \/ SvcParseReply
    \/ SvcExcept
    \/ \E m \in RequestBudgets, f \in ResponseFormats, l \in CreativityLevels,
          n \in RequestWords : SvcCompletionRequest(m, f, l, n)
    \/ \E m \in QuickBudgets, r \in ResponseLengths, l \in CreativityLevels :
          SvcQuickRequest(m, r, l)

SpecSvc == InitSvc /\ [][NextSvc]_vars

\* start-up: the engine is created and init_db.main run, any number of times
InitBoot ==
    /\ catalog \in InitCatalogs
    /\ sessions = << >> /\ analogies = << >>
    /\ pc = [w \in Workers |-> "idle"]
    /\ req = [w \in Workers |-> NoReq]
    /\ session = [w \in Workers |-> None]
    /\ out = NoOut
    /\ svcIn = NoCall
    /\ svcOut = NoCall

NextBoot ==
    \/ MainEnter
    \/ \E ready \in BOOLEAN : MainWaitForDb(ready)
    \/ \E ok \in BOOLEAN : MainCreateTables(ok)
    \/ \E ok \in BOOLEAN, base \in SequenceBases : MainSeedProfessions(ok, base)
    \/ \E ok \in BOOLEAN, base \in SequenceBases : MainSeedTopics(ok, base)
    \/ \E ok \in BOOLEAN, base \in SequenceBases : MainSeedSubtopics(ok, base)
    \/ \E ok \in BOOLEAN : MainVerifySetup(ok)
    \/ \E n \in RetryCounts, d \in RetryDelays : EngineCall(n, d)
    \/ EngineFor
    \/ \E ok \in BOOLEAN : EngineConnect(ok)
    \/ EngineExcept

SpecBoot == InitBoot /\ [][NextBoot]_vars

-----------------------------------------------------------------------------
(* Properties                                                               *)

\* the ids of a request all name catalog rows (a subtopic id only if given)
RequestValid(q) ==
    /\ \E p \in catalog.professions : p.id = q.profession_id
    /\ \E t \in catalog.topics : t.id = q.topic_id
    /\ IsNone(q.subtopic_id) \/ \E x \in catalog.subtopics : x.id = Val(q.subtopic_id)

\* the active session rows of a (user, profession, topic)
ActiveRowsFor(u, p, t) ==
    { i \in DOMAIN sessions :
        sessions[i] = [sessions[i] EXCEPT !.user_identifier = u,
                           !.profession_id = p, !.topic_id = t, !.is_active = TRUE] }

ActiveRowsOf(q) == ActiveRowsFor(q.user_identifier, q.profession_id, q.topic_id)

\* C1: every generate request whose profession, topic and (if given) subtopic
\* exist is answered 200 with a non-empty title and a non-empty explanation,
\* never 500.
C1_ValidGenerateAnswers200 ==
    (out.kind = "generate" /\ RequestValid(out.req)) =>
        /\ out.status = HTTP_200
        /\ Len(out.body.analogy_title) > 0
        /\ Len(out.body.analogy_explanation) > 0

\* C2: every generate request with an unknown profession id, topic id or
\* supplied subtopic id (0 included) is answered 404, never 500.
C2_UnknownIdAnswers404 ==
    (out.kind = "generate" /\ ~RequestValid(out.req)) => out.status = HTTP_404

C3_AtMostOneActive ==
    \A i, j \in DOMAIN sessions :
        (/\ sessions[i].is_active /\ sessions[j].is_active
         /\ sessions[i].user_identifier = sessions[j].user_identifier
         /\ sessions[i].profession_id = sessions[j].profession_id
         /\ sessions[i].topic_id = sessions[j].topic_id) => i = j

C3_NoCreateWhenActive ==
    \A w \in Workers : pc[w] = "create" => ActiveRowsOf(req[w]) = {}

C3_LookupReuses ==
    \A w \in Workers :
        (pc[w] = "lookup" /\ pc'[w] # "lookup" /\ ActiveRowsOf(req[w]) # {}) =>
            /\ sessions' = sessions
            /\ pc'[w] = "generate"
            /\ ActiveRowsOf(req[w]) = { Val(session'[w]) }

\* C3: with requests handled one at a time, there is at most one active
\* session per (user, profession, topic), and a request whose tuple has an
\* active session resolves to that session and inserts no session row.
C3_SessionReuse ==
    [](C3_AtMostOneActive /\ C3_NoCreateWhenActive) /\ [][C3_LookupReuses]_vars

\* a request reuses session 1 while the table holds a later session too
C3_Witness ==
    \E w \in Workers :
        /\ pc[w] = "generate" /\ session[w] = Some(1)
        /\ Len(sessions) = 2 /\ sessions[1].is_active

C4_CommitInserts ==
    \A w \in Workers :
        (pc[w] = "create" /\ pc'[w] = "generate") =>
            /\ Len(sessions') = Len(sessions) + 1
            /\ session'[w] = Some(Len(sessions'))
            /\ ActiveRowsOf(req[w])' = ActiveRowsOf(req[w]) \cup { Len(sessions') }

\* C4: a request that passed the lookup with no session found inserts its
\* own active session at the commit, whatever was committed in between; so
\* two interleaved requests for one tuple leave two active sessions.
C4_RaceCreatesTwo == [][C4_CommitInserts]_vars

\* both requests passed the lookup before either committed, and both
\* committed: two active sessions of one tuple
C4_Witness ==
    /\ \A w \in Workers : pc[w] = "generate"
    /\ req[1].topic_id = req[2].topic_id
    /\ session[1] # session[2]
    /\ Cardinality(ActiveRowsOf(req[1])) = 2

\* C5: when the external call raises, generate_analogy does not raise and
\* returns what the fallback generator returns for the same arguments.
C5_FallbackOnExternalFailure ==
    (svcIn.fn = "generate_analogy" /\ svcIn.ext.kind = "raise") =>
        /\ ~svcOut.raised
        /\ svcOut.source = "fallback"
        /\ svcOut = _generate_fallback_analogy(svcIn.profession, svcIn.concept_name,
                                               svcIn.concept_description)

C5_Witness ==
    /\ svcIn.fn = "generate_analogy" /\ svcIn.ext.kind = "raise"
    /\ svcIn.profession = T("Gaming")
    /\ ~svcOut.raised /\ svcOut.source = "fallback"

\* the fallback generator produced svcOut, or raised
FallbackRan ==
    \/ svcIn.fn = "_generate_fallback_analogy"
    \/ svcIn.fn = "generate_analogy" /\ (svcOut.raised \/ svcOut.source = "fallback")

\* C6: the fallback generator succeeds for every profession, concept name
\* and description, with a non-empty title, a non-empty explanation and at
\* least one example.
C6_FallbackAlwaysSucceeds ==
    FallbackRan =>
        /\ ~svcOut.raised
        /\ IsStr(svcOut.title) /\ Len(svcOut.title.s) > 0
        /\ IsStr(svcOut.explanation) /\ Len(svcOut.explanation.s) > 0
        /\ Len(svcOut.examples) >= 1

\* the fallback ran for a profession the table does not know, with an
\* empty concept name
C6_Witness ==
    /\ svcIn.fn = "_generate_fallback_analogy"
    /\ svcIn.profession = T("Data") /\ svcIn.concept_name = << >>
    /\ ~svcOut.raised /\ Len(svcOut.examples) = 1

\* the score the feedback rule gives, in hundredths
ExpectedScore(r, improved) ==
    IF improved THEN (IF 20 * r + 20 < 100 THEN 20 * r + 20 ELSE 100) ELSE 20 * r

\* C7: feedback with rating r on an existing analogy stores and returns the
\* score r/5, or min(r/5 + 0.2, 1.0) when understanding improved.
C7_ScoreFormula ==
    (out.kind = "feedback" /\ out.status = HTTP_200) =>
        LET f == out.req
            e == ExpectedScore(f.user_rating, f.understanding_improved)
        IN  /\ out.body.understanding_score = e
            /\ analogies[f.analogy_id].understanding_score = Some(e)
            /\ analogies[f.analogy_id].user_rating = Some(f.user_rating)

\* rating 5 with understanding improved: the capped score 1.0
C7_Witness ==
    /\ out.kind = "feedback" /\ out.status = HTTP_200
    /\ out.req.user_rating = 5 /\ out.req.understanding_improved
    /\ out.body.understanding_score = 100

C8_Status ==
    out.kind = "feedback" =>
        IF out.req.analogy_id \in DOMAIN analogies
        THEN /\ out.status = HTTP_200
             /\ analogies[out.req.analogy_id].understanding_score
                    = Some(out.body.understanding_score)
        ELSE out.status = HTTP_404

C8_Frame ==
    (out'.kind = "feedback" /\ out'.status # HTTP_200) =>
        analogies' = analogies /\ sessions' = sessions

\* C8: feedback naming no analogy row is answered 404 and leaves every
\* analogy and session row unchanged; feedback naming a row is answered 200
\* with the computed score.
C8_FeedbackUnknown404 == []C8_Status /\ [][C8_Frame]_vars

\* a 404 feedback response while the analogy table holds an untouched row
C8_Witness ==
    /\ out.kind = "feedback" /\ out.status = HTTP_404
    /\ Len(analogies) = 1 /\ IsNone(analogies[1].user_rating)

\* C9: a quick-explain request, whatever its outcome, leaves the analogy
\* table and the session table as they were.
C9_QuickExplainWritesNothing ==
    [][out'.kind = "quick" => (analogies' = analogies /\ sessions' = sessions)]_vars

\* a quick-explain request was answered over non-empty tables
C9_Witness ==
    /\ out.kind = "quick"
    /\ Len(analogies) = 1 /\ Len(sessions) = 2

\* C10: every well-formed quick-explain request is answered 200 with an
\* explanation payload, whether the external call succeeds or raises.
C10_QuickExplainAnswers200 ==
    (out.kind = "quick" /\ Len(out.req.profession) > 0 /\ Len(out.req.concept) > 0) =>
        /\ out.status = HTTP_200
        /\ IsStr(out.body.explanation)

\* C11: with max_tokens = 500 the safe output budget is at least 300 and at
\* most 0.75 * 500 = 375, whatever the prompt's word count.
C11_BudgetClamp500 ==
    (svcIn.fn = "safe_max_tokens" /\ svcIn.max_tokens = 500) =>
        /\ svcOut.value >= TokenScale * 300
        /\ svcOut.value <= TokenScale * 375

\* a prompt so long that only the floor keeps the budget at 300
C11_Witness ==
    /\ svcIn.fn = "safe_max_tokens" /\ svcIn.max_tokens = 500
    /\ svcIn.words = 1000
    /\ svcOut.value = TokenScale * 300

\* the budget the formula max(max(budget - words * 1.3, 0.75 * budget), 300)
\* gives, in twentieths
BudgetByLargerOf(max_tokens, words) ==
    LET a == TokenScale * max_tokens - 26 * words
        b == 15 * max_tokens
        m == IF a > b THEN a ELSE b
    IN  IF m > TokenScale * 300 THEN m ELSE TokenScale * 300

\* the budget max(min(budget - int(words * 1.3), 0.75 * budget), 300), in
\* twentieths
BudgetBySmallerOf(max_tokens, words) ==
    LET a == TokenScale * (max_tokens - ((13 * words) \div 10))
        b == 15 * max_tokens
        m == IF a < b THEN a ELSE b
    IN  IF m < TokenScale * 300 THEN TokenScale * 300 ELSE m

\* C18 (as stated): the safe output budget equals
\* max(max(token_budget - estimated_input, 0.75 * token_budget), 300) with
\* estimated_input = word count * 1.3.
C18_BudgetFormula ==
    svcIn.fn = "safe_max_tokens" =>
        svcOut.value = BudgetByLargerOf(svcIn.max_tokens, svcIn.words)

\* C18 (amended): the safe output budget equals
\* max(min(token_budget - int(word count * 1.3), 0.75 * token_budget), 300).
C18_BudgetFormulaSmallerOf ==
    svcIn.fn = "safe_max_tokens" =>
        svcOut.value = BudgetBySmallerOf(svcIn.max_tokens, svcIn.words)

\* a short prompt: the budget is 0.75 * 2000 = 1500, not 2000 - 130
C18_Witness ==
    /\ svcIn.fn = "safe_max_tokens"
    /\ svcIn.max_tokens = 2000 /\ svcIn.words = 100
    /\ svcOut.value = TokenScale * 1500

\* C12: every GeneratedAnalogy row has user_rating absent or in 1..5 and
\* understanding_score absent or in [0, 1] (0..100 hundredths).
C12_RatingAndScoreRanges ==
    \A i \in DOMAIN analogies :
        /\ IsNone(analogies[i].user_rating)
           \/ (Val(analogies[i].user_rating) >= 1 /\ Val(analogies[i].user_rating) <= 5)
        /\ IsNone(analogies[i].understanding_score)
           \/ (Val(analogies[i].understanding_score) >= 0
               /\ Val(analogies[i].understanding_score) <= 100)

\* a row has been rated 5 with the capped score, and a body with rating 6
\* has just been turned away
C12_Witness ==
    /\ out.kind = "validation" /\ out.req.user_rating = 6
    /\ out.req.analogy_id \in DOMAIN analogies
    /\ analogies[out.req.analogy_id].user_rating = Some(5)
    /\ analogies[out.req.analogy_id].understanding_score = Some(100)

\* C13: every GeneratedAnalogy row's session_id is the id of a
\* LearningSession row, and every LearningSession row's profession_id and
\* topic_id are ids of catalog rows.
C13_References ==
    /\ \A i \in DOMAIN analogies : analogies[i].session_id \in DOMAIN sessions
    /\ \A j \in DOMAIN sessions :
          /\ ById(catalog.professions, sessions[j].profession_id) # {}
          /\ ById(catalog.topics, sessions[j].topic_id) # {}

\* a request has committed a new session next to the stored analogy's one
\* while the other worker's request is still in hand
C13_Witness ==
    /\ Len(analogies) = 1 /\ Len(sessions) = 2
    /\ sessions[2].is_active /\ sessions[2].topic_id = 2
    /\ pc[1] = "lookup" /\ pc[2] = "generate"

\* the text has a first non-blank character and it is not '{'
FirstNonBlankIsNotBrace(s) == Len(Strip(s)) > 0 /\ Strip(s)[1] # "{"

\* C14: a completion text whose first non-blank character is not '{' takes
\* the heuristic title-scan path and comes back with a non-empty explanation
\* equal to the full text, and no examples.
C14_HeuristicPath ==
    (/\ svcIn.fn = "_parse_analogy_response"
     /\ svcIn.content.form = "raw"
     /\ FirstNonBlankIsNotBrace(svcIn.content.text)) =>
        /\ ~svcOut.raised
        /\ svcOut.path = "heuristic"
        /\ svcOut.explanation = PyStr(svcIn.content.text)
        /\ Len(svcOut.explanation.s) > 0
        /\ svcOut.examples = << >>

\* a text with leading and trailing blanks and no title keyword
C14_Witness ==
    /\ svcIn.fn = "_parse_analogy_response"
    /\ svcIn.content = RawContent(<< " ", "\n", "plain", " ", "text", "\n" >>)
    /\ svcOut.path = "heuristic"
    /\ svcOut.title = PyStr(T("Understanding Through Analogy"))

\* a is a prefix of b
IsPrefix(a, b) == Len(a) <= Len(b) /\ a = SubSeq(b, 1, Len(a))

\* the parser took the except branch on a text that starts with '{'
MalformedBraceText ==
    /\ svcIn.fn = "_parse_analogy_response"
    /\ svcIn.content.form = "raw"
    /\ StartsWithBrace(svcIn.content.text)

\* C19 (as stated): for a text that starts with '{' and is not valid JSON the
\* explanation is at most 500 characters long and a prefix of the text, and
\* there are no examples.
C19_TruncatedTo500 ==
    MalformedBraceText =>
        /\ ~svcOut.raised
        /\ Len(svcOut.explanation.s) <= 500
        /\ IsPrefix(svcOut.explanation.s, svcIn.content.text)
        /\ svcOut.examples = << >>

\* C19 (amended): for a text that starts with '{' and is not valid JSON the
\* explanation is the text itself when it has at most 500 characters, and
\* otherwise its first 500 characters followed by "..." (503 characters);
\* there are no examples.
C19_TruncatedWithEllipsis ==
    MalformedBraceText =>
        LET text == svcIn.content.text
        IN  /\ ~svcOut.raised
            /\ svcOut.path = "truncated"
            /\ IF Len(text) <= 500
               THEN svcOut.explanation = PyStr(text)
               ELSE /\ Len(svcOut.explanation.s) = 503
                    /\ SubSeq(svcOut.explanation.s, 1, 500) = SubSeq(text, 1, 500)
                    /\ SubSeq(svcOut.explanation.s, 501, 503) = << ".", ".", "." >>
            /\ svcOut.examples = << >>

\* a malformed text of 501 characters came back as 503
C19_Witness ==
    /\ MalformedBraceText
    /\ Len(svcIn.content.text) = 501
    /\ Len(svcOut.explanation.s) = 503

\* the value is an AnalogyExample record
IsAnalogyExample(e) ==
    DOMAIN e = {"title", "description", "code_snippet", "visual_metaphor"}

\* C20: whatever the completion reply, generate_analogy returns a str title,
\* a str explanation and a list of AnalogyExample values.
C20_NormalizedTuple ==
    svcIn.fn = "generate_analogy" =>
        /\ ~svcOut.raised
        /\ IsStr(svcOut.title)
        /\ IsStr(svcOut.explanation)
        /\ \A i \in DOMAIN svcOut.examples : IsAnalogyExample(svcOut.examples[i])

\* one run of generate_analogy has made at most one completion call
C17_AtMostOneCall == InSteps => svcOut.calls <= 1

\* the step taken after the try block failed is the fallback, with no
\* further completion call
C17_FallbackNext ==
    (/\ InSteps /\ svcOut.stage # "returned" /\ svcOut.failed
     /\ svcIn' = svcIn /\ svcOut' # svcOut) =>
        /\ svcOut'.stage = "returned"
        /\ svcOut'.source = "fallback"
        /\ svcOut'.calls = svcOut.calls

\* C17: generate_analogy makes at most one external completion call; after
\* a failed call there is no second attempt and the next step is the
\* fallback generator.
C17_SingleCallThenFallback == []C17_AtMostOneCall /\ [][C17_FallbackNext]_vars

\* the one call failed and the fallback's analogy was returned
C17_Witness ==
    /\ InSteps /\ svcOut.stage = "returned"
    /\ svcOut.failed /\ svcOut.calls = 1 /\ svcOut.source = "fallback"

\* the GET endpoints that take a catalog id
CatalogReads ==
    {"get_profession", "get_topic", "get_topic_subtopics", "get_topic_with_subtopics"}

\* the catalog table an endpoint looks its id up in
TableOf(kind) == IF kind = "get_profession" THEN catalog.professions ELSE catalog.topics

\* C15: GET /professions/{id}, /topics/{id}, /topics/{id}/subtopics and
\* /topics/{id}/with-subtopics answer 404 exactly when the id is not in the
\* catalog, and otherwise return the entity with that id.
C15_GetByIdAnswers ==
    out.kind \in CatalogReads =>
        IF ById(TableOf(out.kind), out.req.id) = {}
        THEN out.status = HTTP_404
        ELSE out.status = HTTP_200 /\ out.body.id = out.req.id

\* no GET endpoint changes a catalog, session or analogy row
C15_ReadsWriteNothing ==
    [][out'.kind \in CatalogReads =>
          (catalog' = catalog /\ sessions' = sessions /\ analogies' = analogies)]_vars

\* the request in `out` committed or found its session, then called the
\* service, then committed its analogy
SessionThenCallThenAnalogy ==
    /\ ActiveRowsOf(out.req) # {}
    /\ svcIn.fn = "generate_analogy"
    /\ \E i \in DOMAIN analogies : analogies[i].session_id \in ActiveRowsOf(out.req)

BandOfBudget(budget) ==
    IF budget < 800 THEN "1-2 examples"
    ELSE IF budget > 2500 THEN "3-4 examples"
    ELSE "2-3 examples"

\* C21: the system instruction's verbosity band is determined by the
\* request's token budget alone (below 800: 1-2 examples, 800 to 2500: 2-3
\* examples, above 2500: 3-4 examples), and the user instruction of the same
\* request asks for the same example count.
C21_BandsByBudget ==
    svcIn.fn = "generate_analogy: request" =>
        /\ svcOut.system_examples = BandOfBudget(svcIn.max_tokens)
        /\ svcOut.user_examples = svcOut.system_examples

\* the state holds the completion request of a generate_analogy call
IsCompletionRequest == svcIn.fn = "generate_analogy: request"

\* the temperature of successive calls does not fall when the level rises
C22_NonDecreasing ==
    (/\ IsCompletionRequest /\ IsCompletionRequest'
     /\ svcIn.creativity_level <= svcIn'.creativity_level)
        => svcOut.temperature <= svcOut'.temperature

\* the temperature is the linear value, or 1.0 where that is larger
C22_Formula ==
    IsCompletionRequest =>
        /\ svcIn.creativity_level \in 1..5
        /\ svcOut.temperature <= 100
        /\ \/ svcOut.temperature = 30 + 15 * svcIn.creativity_level
           \/ (svcOut.temperature = 100 /\ 30 + 15 * svcIn.creativity_level > 100)

QuickTemperatureLinear ==
    svcIn.fn = "generate_quick_analogy: request" =>
        /\ svcOut.temperature = 30 + 10 * svcIn.creativity_level
        /\ svcOut.temperature <= 80

\* C27: the max-token value sent to the completion endpoint never exceeds
\* the token budget the caller asked for, in generate_analogy (every
\* max_tokens and prompt) and in generate_quick_analogy (every max_tokens
\* and response_length, recognized or not).
C27_SentWithinBudget ==
    svcIn.fn \in {"generate_analogy: request", "generate_quick_analogy: request"}
        => svcOut.max_tokens <= svcIn.max_tokens

\* worker w's request, past its session lookup or commit, ends in this step
\* without a 200
FailsAfterSession(w) ==
    pc[w] = "generate" /\ pc'[w] = "idle" /\ out'.status # HTTP_200

C23_Step ==
    \A w \in Workers :
        FailsAfterSession(w) =>
            /\ out'.kind = "generate" /\ out'.status = HTTP_500
            /\ Val(session[w]) \in DOMAIN sessions'
            /\ sessions'[Val(session[w])].is_active
            /\ sessions' = sessions
            /\ analogies' = analogies

\* C23: a generate request that has created its session and then fails at a
\* later step answers 500, and the session row committed earlier remains in
\* the database, active, with no analogy attached by that request.
C23_SessionSurvivesFailure == [][C23_Step]_vars

\* on a database that held no row, a request was answered 500 and left its
\* active session behind, without an analogy
C23_Witness ==
    /\ out.kind = "generate" /\ out.status = HTTP_500
    /\ RequestValid(out.req)
    /\ ActiveRowsOf(out.req) # {}
    /\ analogies = << >>

\* a generate request is answered 404 in this step
Answers404 == out'.kind = "generate" /\ out'.status = HTTP_404 /\ out' # out

C24_Step ==
    /\ Answers404 =>
          /\ AllIdle
          /\ sessions' = sessions /\ analogies' = analogies
          /\ svcIn' = svcIn /\ svcOut' = svcOut
    /\ \A w \in Workers :
          (pc[w] # "idle" /\ pc'[w] = "idle") => out'.status # HTTP_404

\* C24: validation precedes every write in a generate request: whenever the
\* request is answered 404, it has created or modified no LearningSession
\* row and no GeneratedAnalogy row, and it has made no external call.
C24_ValidationBeforeWrites == [][C24_Step]_vars

\* a 404 for an unknown subtopic of a known profession and topic, on a
\* database that holds rows
C24_Witness ==
    /\ out.kind = "generate" /\ out.status = HTTP_404
    /\ ById(catalog.professions, out.req.profession_id) # {}
    /\ ById(catalog.topics, out.req.topic_id) # {}
    /\ Len(sessions) > 0 /\ Len(analogies) > 0

\* the columns of a generated_analogies row that are written once
CreatedFields(row) ==
    [session_id |-> row.session_id, concept_name |-> row.concept_name,
     concept_description |-> row.concept_description,
     analogy_title |-> row.analogy_title,
     analogy_explanation |-> row.analogy_explanation,
     analogy_examples |-> row.analogy_examples]

\* a generate request is answered in this step
GenerateAnswered == \E w \in Workers : pc[w] # "idle" /\ pc'[w] = "idle"

C25_Step ==
    /\ Len(analogies') >= Len(analogies)
    /\ \A i \in DOMAIN analogies :
          CreatedFields(analogies'[i]) = CreatedFields(analogies[i])
    /\ IF GenerateAnswered /\ out'.status = HTTP_200
       THEN /\ Len(analogies') = Len(analogies) + 1
            /\ analogies'[Len(analogies')].session_id = out'.body.session_id
       ELSE Len(analogies') = Len(analogies)

\* C25: the analogy store is append-only: a generate request answered 200
\* adds exactly one GeneratedAnalogy row, linked to the session id of the
\* response; no operation deletes an analogy row or changes its session_id,
\* concept, title, explanation or examples; and a request not answered 200
\* adds no analogy row.
C25_AppendOnly == [][C25_Step]_vars

\* a generate request answered 500 added no row, and the row that has
\* received feedback still has the content it was created with
C25_Witness ==
    /\ out.kind = "generate" /\ out.status = HTTP_500
    /\ Len(analogies) = 1
    /\ ~IsNone(analogies[1].user_rating)
    /\ CreatedFields(analogies[1]) = CreatedFields(SeedAnalogy)

\* a feedback request is answered 200 in this step
FeedbackApplied == out'.kind = "feedback" /\ out'.status = HTTP_200

\* a row with its two feedback columns blanked
WithoutFeedback(row) ==
    [row EXCEPT !.user_rating = None, !.understanding_score = None]

C26_Step ==
    FeedbackApplied =>
        LET f == out'.req
        IN  /\ catalog' = catalog /\ sessions' = sessions
            /\ DOMAIN analogies' = DOMAIN analogies
            /\ f.analogy_id \in DOMAIN analogies
            /\ \A i \in DOMAIN analogies :
                  IF i = f.analogy_id
                  THEN /\ WithoutFeedback(analogies'[i]) = WithoutFeedback(analogies[i])
                       /\ analogies'[i].user_rating = Some(f.user_rating)
                       /\ analogies'[i].understanding_score =
                              Some(ExpectedScore(f.user_rating, f.understanding_improved))
                  ELSE analogies'[i] = analogies[i]

\* the rating and the score of a row are both absent or both present
C26_BothOrNeither ==
    \A i \in DOMAIN analogies :
        IsNone(analogies[i].user_rating) <=> IsNone(analogies[i].understanding_score)

\* C26: a feedback request answered 200 changes only the user_rating and
\* understanding_score of the analogy it names (every other analogy row,
\* every other field of that row and every session row are unchanged); a
\* later feedback request for the same analogy overwrites both fields; and
\* the two fields are either both absent or both present.
C26_FeedbackFrame == []C26_BothOrNeither /\ [][C26_Step]_vars

\* a second feedback has replaced the rating and the score a first one stored
C26_Overwrites ==
    /\ FeedbackApplied
    /\ ~IsNone(analogies[out'.req.analogy_id].user_rating)
    /\ analogies'[out'.req.analogy_id].user_rating
           # analogies[out'.req.analogy_id].user_rating

\* the row named by the latest feedback holds that feedback's rating, next
\* to a session row
C26_Witness ==
    /\ out.kind = "feedback" /\ out.status = HTTP_200
    /\ out.req.user_rating = 2 /\ ~out.req.understanding_improved
    /\ analogies[out.req.analogy_id].user_rating = Some(2)
    /\ analogies[out.req.analogy_id].understanding_score = Some(40)
    /\ Len(sessions) = 2

\* no step overwrites a stored rating (refuted: last write wins)
NeverOverwrites == [][~C26_Overwrites]_vars

\* C28: in every reachable state a LearningSession that records a
\* subtopic_id records one whose Subtopic belongs to the session's topic
\* (subtopic.topic_id = session.topic_id).
C28_SubtopicOfSessionTopic ==
    \A i \in DOMAIN sessions :
        ~IsNone(sessions[i].subtopic_id) =>
            \E x \in catalog.subtopics :
                /\ x.id = Val(sessions[i].subtopic_id)
                /\ x.topic_id = sessions[i].topic_id

\* the three catalog tables all hold rows
FullySeeded == verify_setup(catalog)

\* the latest finished run of main returned True
MainSucceeded == out.kind = "init_db.main" /\ out.success

\* a run of main that returns True leaves all three tables seeded
C29_SuccessMeansSeeded == MainSucceeded => FullySeeded

\* every subtopic row's topic_id is the id of a topic row
C29_SubtopicTopics ==
    \A x \in catalog.subtopics : \E t \in catalog.topics : t.id = x.topic_id

\* on a seeded database no step of main adds, removes or changes a row
C29_Unchanged == (FullySeeded \/ MainSucceeded) => catalog' = catalog

\* C29: database seeding is idempotent: running init_db's main a second
\* time on a database it has already seeded adds, removes and changes no
\* profession, topic or subtopic row; and every seeded subtopic's topic_id
\* is the id of an existing topic.
C29_SeedingIdempotent ==
    [](C29_SuccessMeansSeeded /\ C29_SubtopicTopics) /\ [][C29_Unchanged]_vars

\* a further run of main has passed its seeding steps on a database an
\* earlier run seeded, whose subtopic was given the id of a topic with a
\* later id
C29_Witness ==
    /\ InMain("verify_setup")
    /\ MainSucceeded
    /\ \E x \in catalog.subtopics : x.topic_id = 3

\* seeding an empty database with fresh id sequences yields SeedCatalog
SeedsTheCatalog ==
    seed_subtopics(seed_topics(seed_professions(
        [professions |-> {}, topics |-> {}, subtopics |-> {}], 0), 0),
        TopicDict(SeedCatalog), 0) = SeedCatalog

\* what the claim says of a call of create_db_engine, at any point of it
EngineOutcome ==
    /\ svcOut.connects <= svcIn.max_retries
    /\ svcOut.stage = "returned" =>
          /\ svcOut.engine
          /\ svcOut.sleeps = svcOut.connects - 1
    /\ svcOut.stage = "raised" =>
          /\ svcOut.connects = svcIn.max_retries
          /\ svcOut.sleeps = svcIn.max_retries - 1
    /\ svcOut.waited = svcOut.sleeps * svcIn.retry_delay

EngineOutcomeFromOneAttempt ==
    (svcIn.fn = "create_db_engine" /\ svcIn.max_retries >= 1) => EngineOutcome

====
